---- MODULE Spec2Model ----
(***************************************************************************)
(* The multiplayer game engine of trivia-duel: GameConsumer                *)
(* (server/trivia/consumers.py) over the Lobby record of the lobby store   *)
(* (server/trivia/models.py).                                              *)
(*                                                                         *)
(* Every websocket is one GameConsumer instance.  A consumer handles one   *)
(* message at a time, but the consumers of a lobby run independently and   *)
(* share the lobby only through the store, so a handler is one step per    *)
(* store access: it reads the record into a local copy (Lobby.get), works  *)
(* on the copy and writes it back (lobby.save) in a later step.            *)
(***************************************************************************)
EXTENDS Integers, Sequences, FiniteSets, TLC

(* ------------------------------ bounds --------------------------------- *)
\* websockets opened over a run; they are opened in the order 1, 2, ...
NumConns == 3
\* registered users (rows of the user table), ids 1..NumUsers
NumUsers == 3
\* the clock stops advancing at MaxTime
MaxTime == 2
\* question.answered messages the clients get scored over a run; questions
\* are answered in the runs that leave the last socket unopened
MaxAnswers == 8
NumRequests == 2
\* longest answers list a client sends with fifty.request
MaxChoices == 5
\* failures of the lobby store or the question provider over a run
MaxFaults == 1

Conns == 1..NumConns
Users == 1..NumUsers

(* ----------------------------- settings -------------------------------- *)
\* Durations are in clock ticks: a tick is longer than the time a question
\* allows and shorter than a game.
GAME_MAX_DURATION_SECONDS == 1
LOBBY_EXPIRE_SECONDS == 1
TRIVIA_API_QUESTION_AMOUNT == 2
QUESTION_MAX_DURATION_SECONDS_MAP == [easy |-> 0, medium |-> 0, hard |-> 0]
QUESTION_DIFFICULTY_DAMAGE_MAP == [easy |-> 10, medium |-> 20, hard |-> 30]
GAME_RANK_GAIN == 20
USER_STARTING_RANK == 1000

(* ------------------------------- types --------------------------------- *)
\* LobbyState and GameStatus, by name
WAITING == "WAITING"
IN_PROGRESS == "IN_PROGRESS"
FINISHED == "FINISHED"
DRAW == "DRAW"
LOSS == "LOSS"
WIN == "WIN"

\* the one lobby the admission API has created, and a name no lobby has
LobbyName == "L1"
OtherName == "L2"
LobbyNames == {LobbyName, OtherName}

\* users: user id -> hp (the player's name is the token's username and is
\* never read back by the engine)
NoUsers == [u \in {} |-> 100]

\* a Lobby as the model class constructs it
NewLobby ==
    [ users |-> NoUsers,
      ready_count |-> 0,
      current_answer_count |-> 0,
      current_question_count |-> 0,
      state |-> WAITING,
      ranked |-> 0,
      trivia_token |-> "",
      correct_answers |-> <<>>,
      game_start_time |-> 0,
      question_start_time |-> 0 ]

\* Join tokens as the handshake sees them: the query string is missing, is
\* a JWT with a bad signature, is an expired JWT, or decodes to its claims.
NoToken == [kind |-> "missing", id |-> 0, lobby_name |-> ""]
Tokens ==
    {NoToken}
    \cup {[kind |-> k, id |-> 1, lobby_name |-> LobbyName] : k \in {"badsig", "expired"}}
    \cup {[kind |-> "ok", id |-> u, lobby_name |-> n] : u \in Users, n \in LobbyNames}

\* The batches the question provider can answer get_questions with: the
\* correct answer and the difficulty of each question, after formatting.
Batches ==
    { << [answer |-> "A", difficulty |-> "hard"],
         [answer |-> "B", difficulty |-> "hard"] >> }

\* what a client may put in question.answered
ClientAnswers == {"A", "B", "True", ""}

(* ------------------------------- state --------------------------------- *)
VARIABLES
    store,   \* lobby store: lobby name -> Lobby record, for the keys that exist
    ttl,     \* lobby name -> time the key expires, for the keys with a TTL
    conn,    \* the consumers: connection -> its fields and its handler's position
    group,   \* channel layer group of the lobby: the subscribed connections
    inbox,   \* channel layer events sent to a connection and not yet handled
    games,   \* Game rows with their UserGame rows, in the order written
    rank,    \* user table: user id -> rank
    now,     \* wall clock
    answers, \* question.answered messages scored so far
    readied, \* history: the users whose game.ready has been taken
    frame,   \* the frame the last step sent to a client, or the question.answered
             \* frame it received from one: <<connection, frame>>
    requests, \* the HTTP requests of the lobby views that are being served
    faults   \* failures of the lobby store and of the question provider: how
             \* many can still happen, and the kinds that have happened

vars == <<store, ttl, conn, group, inbox, games, rank, now, answers, readied, frame,
          requests, faults>>

\* the HTTP requests that can be served at once
Requests == 1..NumRequests

\* a request slot with no view running in it
NoRequest == [pc |-> "idle", name |-> "", ranked |-> 0, user |-> 0]

\* no failure can happen and none has happened
NoFaults == [left |-> 0, seen |-> {}]

\* a step that sends no frame, serves no HTTP request and meets no failure
Silent == frame' = <<>> /\ UNCHANGED <<requests, faults>>

\* A consumer before its socket is opened (__init__), and what is left of
\* one once its socket is gone.
NewConn ==
    [ status |-> "new",
      pc |-> "idle",
      lobby_name |-> "",
      user_id |-> 0,
      ready_sent |-> FALSE,
      question_answered |-> FALSE,
      fifty_used |-> FALSE,
      local |-> NewLobby,
      statuses |-> NoUsers ]

Gone(status) == [NewConn EXCEPT !.status = status]

\* Gone("crashed") is the consumer lost to an exception its handler raised:
\* no disconnect handler runs for it, its user stays in the lobby and its
\* channel in the group.

\* a consumer whose socket has closed: only disconnect() is still to run,
\* and it reads none of the flags
Leaving(c) == [conn[c] EXCEPT !.status = "closing", !.ready_sent = FALSE,
                              !.question_answered = FALSE]

Exists(name) == name \in DOMAIN store

\* lobby.save(): the record is written under its key; a key that exists
\* keeps its TTL, a key written anew has none
Save(name, rec) == [n \in DOMAIN store \cup {name} |-> IF n = name THEN rec ELSE store[n]]

\* Lobby.delete(name)
Delete(name) == [n \in DOMAIN store \ {name} |-> store[n]]
DropTtl(name) == [n \in DOMAIN ttl \ {name} |-> ttl[n]]

\* a connection whose consumer still takes channel layer events
Live(c) == conn[c].status \in {"connecting", "open"}

\* channel_layer.group_send: the event is queued for every subscriber
SendEventToLobby(grp, event) ==
    [c \in Conns |-> IF c \in grp /\ Live(c) THEN Append(inbox[c], event) ELSE inbox[c]]

\* send_event_to_lobby, called for each of `events` in turn
SendEventsToLobby(grp, events) ==
    [c \in Conns |-> IF c \in grp /\ Live(c) THEN inbox[c] \o events ELSE inbox[c]]

\* A channel layer event waits for a consumer that is free to handle it.
\* Such an event is handled before anything else happens but a disconnect:
\* its handler touches only its own consumer, so when it runs makes no
\* difference to any other.
Pending(c) == conn[c].status = "open" /\ conn[c].pc = "idle" /\ inbox[c] # <<>>
NoPending == \A c \in Conns : ~Pending(c)

Init ==
    /\ \E ranked \in {0, 1} : store = (LobbyName :> [NewLobby EXCEPT !.ranked = ranked])
    /\ ttl = (LobbyName :> LOBBY_EXPIRE_SECONDS)
    /\ conn = [c \in Conns |-> NewConn]
    /\ group = {}
    /\ inbox = [c \in Conns |-> <<>>]
    /\ games = <<>>
    /\ rank = [u \in Users |-> IF u = 1 THEN 0 ELSE USER_STARTING_RANK]
    /\ now = 0
    /\ answers = 0
    /\ readied = {}
    /\ frame = <<>>
    /\ requests = [r \in Requests |-> NoRequest]
    /\ faults = NoFaults

(* ------------------------------ connect -------------------------------- *)
\* decode_lobby_token raises InvalidTokenError
InvalidToken(tok) == tok.kind # "ok"

\* connect() as it would be if it admitted a third player
ConnectDeniedOverTwo(name, tok) ==
    \/ ~Exists(name)
    \/ Cardinality(DOMAIN store[name].users) > 2
    \/ InvalidToken(tok)
    \/ tok.lobby_name # name
    \/ tok.id \in DOMAIN store[name].users

\* connect() as it would be if it did not compare the token's lobby name
ConnectDeniedAnyLobby(name, tok) ==
    \/ ~Exists(name)
    \/ Cardinality(DOMAIN store[name].users) > 1
    \/ InvalidToken(tok)
    \/ tok.id \in DOMAIN store[name].users

\* connect() up to its DenyConnection checks, for the websocket request
\* /lobbies/<name>?<tok>
ConnectDenied(name, tok) ==
    \/ ~Exists(name)
    \/ Cardinality(DOMAIN store[name].users) > 1
    \/ InvalidToken(tok)
    \/ tok.lobby_name # name
    \/ tok.id \in DOMAIN store[name].users

\* connect() as it would be if it announced the game to every player
\* admitted
PrepareSentAlways(lobby) == TRUE

\* the player admitted is the second one: game.prepare is broadcast
PrepareSent(lobby) == Cardinality(DOMAIN lobby.users) = 2

\* users[token id] = {name, hp: 100}
AddUser(users, id) == [u \in DOMAIN users \cup {id} |-> IF u = id THEN 100 ELSE users[u]]

\* connect(): a client opens a websocket on /lobbies/<name>?<tok>.  The
\* lobby is read and the token checked; an admitted player is put into the
\* local copy and subscribed, the first player's TTL is removed, the second
\* player's admission is announced with game.prepare, and the copy waits to
\* be saved.  Users are interchangeable: the c-th socket
\* presents a token of one of the first c users.
connect(c, name, tok) ==
    /\ NoPending
    /\ conn[c].status = "new"
    /\ \A d \in Conns : d < c => conn[d].status # "new"
    /\ tok.id <= c
    /\ c = NumConns => answers = 0
    /\ IF ConnectDenied(name, tok)
       THEN /\ conn' = [conn EXCEPT ![c] = Gone("denied")]
            /\ UNCHANGED <<store, ttl, group, inbox, games, rank, now, answers, readied>>
            /\ Silent
       ELSE LET lobby == [store[name] EXCEPT !.users = AddUser(@, tok.id)]
            IN  /\ conn' = [conn EXCEPT ![c] = [@ EXCEPT !.status = "connecting",
                                                         !.pc = "connect_save",
                                                         !.lobby_name = name,
                                                         !.user_id = tok.id,
                                                         !.local = lobby]]
                /\ group' = group \cup {c}
                /\ ttl' = IF Cardinality(DOMAIN lobby.users) = 1 THEN DropTtl(name) ELSE ttl
                /\ inbox' = IF PrepareSent(lobby)
                            THEN [d \in Conns |->
                                    IF d \in group' /\ (Live(d) \/ d = c)
                                    THEN Append(inbox[d], [type |-> "game.prepare"])
                                    ELSE inbox[d]]
                            ELSE inbox
                /\ UNCHANGED <<store, games, rank, now, answers, readied>>
                /\ Silent

\* connect(): lobby.save(), AcceptConnection
connect_save(c) ==
    /\ NoPending
    /\ conn[c].pc = "connect_save"
    /\ store' = Save(conn[c].lobby_name, conn[c].local)
    /\ conn' = [conn EXCEPT ![c] = [@ EXCEPT !.status = "open", !.pc = "idle",
                                             !.local = NewLobby]]
    /\ UNCHANGED <<ttl, group, inbox, games, rank, now, answers, readied>>
    /\ Silent

(* ---------------------------- end of game ------------------------------ *)
determine_rank_gain_by_game_status(status) ==
    CASE status = WIN -> GAME_RANK_GAIN
      [] status = LOSS -> 0 - GAME_RANK_GAIN
      [] status = DRAW -> 0

\* the new rank as it would be without the floor
MaxUnfloored(a, b) == a

Max(a, b) == IF a >= b THEN a ELSE b

\* list(lobby.users.items()), by ascending user id
RECURSIVE Items(_, _)
Items(users, ids) ==
    IF ids = {} THEN <<>>
    ELSE LET m == CHOOSE x \in ids : \A y \in ids : x <= y
         IN  <<(<<m, users[m]>>)>> \o Items(users, ids \ {m})

\* the statuses of the two (id, hp) pairs of `users`
\* determine_user_status_by_hp() as it would be if the first user won on
\* equal hp
determine_user_status_by_hp_no_draw(users) ==
    IF users[1][2] >= users[2][2]
    THEN (users[1][1] :> WIN) @@ (users[2][1] :> LOSS)
    ELSE (users[1][1] :> LOSS) @@ (users[2][1] :> WIN)

determine_user_status_by_hp(users) ==
    LET user1_id == users[1][1]
        user1_hp == users[1][2]
        user2_id == users[2][1]
        user2_hp == users[2][2]
    IN  IF user1_hp = user2_hp
        THEN (user1_id :> DRAW) @@ (user2_id :> DRAW)
        ELSE IF user1_hp > user2_hp
        THEN (user1_id :> WIN) @@ (user2_id :> LOSS)
        ELSE (user1_id :> LOSS) @@ (user2_id :> WIN)

\* Game.objects.save_multiplayer_game: the Game row, then one UserGame row
\* for each user of `written`, each naming the other user as opponent
save_multiplayer_game(game_type, users, written) ==
    [type |-> game_type,
     rows |-> [u \in written |-> users[u]],
     opponent |-> [u \in written |-> CHOOSE v \in DOMAIN users : v # u]]

\* The sets of users whose UserGame row may have been saved when
\* save_multiplayer_game returns or fails.  A failed save is explored in
\* games that end before an answer was scored and the last socket opened.
WrittenRows(users) ==
    IF answers = 0 /\ conn[NumConns].status = "new"
    THEN SUBSET DOMAIN users ELSE {DOMAIN users}

\* handle_game_end(users): the stored lobby is marked FINISHED, the ranks
\* of a ranked lobby are updated, the Game and its two UserGame rows are
\* written and game.end is broadcast.  The three rows are saved one by one
\* outside any transaction: `written` are the users whose UserGame row
\* reached the database, and the handler fails when one did not.
handle_game_end(c, users, written) ==
    LET name == conn[c].lobby_name
        lobby == store[name]
    IN  /\ store' = Save(name, [lobby EXCEPT !.state = FINISHED])
        /\ rank' = [u \in Users |->
                      IF u \in DOMAIN users /\ lobby.ranked = 1
                      THEN Max(rank[u] + determine_rank_gain_by_game_status(users[u]), 0)
                      ELSE rank[u]]
        /\ games' = Append(games, save_multiplayer_game(
                        IF lobby.ranked = 1 THEN "RANKED" ELSE "NORMAL", users, written))
        /\ inbox' = IF written = DOMAIN users
                    THEN SendEventToLobby(group,
                            [type |-> "game.end",
                             users |-> users,
                             rank_gain |-> [u \in DOMAIN users |->
                                              determine_rank_gain_by_game_status(users[u])]])
                    ELSE [inbox EXCEPT ![c] = <<>>]

(* ----------------------------- disconnect ------------------------------ *)
\* disconnect() as it would be if it gave the game to the player leaving
DisconnectStatusesSwapped(user_id, opponent_user_id) ==
    (user_id :> WIN) @@ (opponent_user_id :> LOSS)

\* the statuses disconnect() resolves a game in progress with
DisconnectStatuses(user_id, opponent_user_id) ==
    (user_id :> LOSS) @@ (opponent_user_id :> WIN)

\* disconnect(): the socket has closed, by the client or after game.end.
\* The lobby is read; the last player goes on to delete it, any other is
\* unsubscribed and goes on to end a game in progress and to leave.
disconnect(c) ==
    /\ conn[c].status \in {"denied", "open", "closing"}
    /\ conn[c].pc = "idle"
    /\ UNCHANGED <<store, ttl, games, rank, now, answers, readied>>
    /\ Silent
    /\ inbox' = [inbox EXCEPT ![c] = <<>>]
    /\ LET name == conn[c].lobby_name
           id == conn[c].user_id
       IN  IF id = 0
           THEN conn' = [conn EXCEPT ![c] = Gone("rejected")] /\ group' = group
           ELSE IF ~Exists(name)
           THEN conn' = [conn EXCEPT ![c] = Gone("crashed")] /\ group' = group
           ELSE IF Cardinality(DOMAIN store[name].users) = 1
           THEN /\ conn' = [conn EXCEPT ![c] = [Leaving(c) EXCEPT !.pc = "disconnect_delete"]]
                /\ group' = group
           ELSE IF store[name].state # IN_PROGRESS
           THEN /\ conn' = [conn EXCEPT ![c] = [Leaving(c) EXCEPT !.pc = "disconnect_save",
                                                                 !.local = store[name]]]
                /\ group' = group \ {c}
           ELSE IF DOMAIN store[name].users \ {id} = {}
           THEN conn' = [conn EXCEPT ![c] = Gone("crashed")] /\ group' = group \ {c}
           ELSE /\ \E opponent_user_id \in DOMAIN store[name].users \ {id} :
                     conn' = [conn EXCEPT ![c] =
                                [Leaving(c) EXCEPT !.pc = "disconnect_game_end",
                                          !.local = store[name],
                                          !.statuses = DisconnectStatuses(id, opponent_user_id)]]
                /\ group' = group \ {c}

\* disconnect(): Lobby.delete, group_discard
disconnect_delete(c) ==
    /\ NoPending
    /\ conn[c].pc = "disconnect_delete"
    /\ store' = Delete(conn[c].lobby_name)
    /\ ttl' = DropTtl(conn[c].lobby_name)
    /\ group' = group \ {c}
    /\ conn' = [conn EXCEPT ![c] = Gone("closed")]
    /\ UNCHANGED <<inbox, games, rank, now, answers, readied>>
    /\ Silent

\* disconnect(): handle_game_end({self: LOSS, opponent: WIN})
disconnect_game_end(c) ==
    /\ NoPending
    /\ conn[c].pc = "disconnect_game_end"
    /\ IF ~Exists(conn[c].lobby_name)
       THEN /\ conn' = [conn EXCEPT ![c] = Gone("crashed")]
            /\ UNCHANGED <<store, inbox, games, rank>>
       ELSE \E written \in WrittenRows(conn[c].statuses) :
            /\ handle_game_end(c, conn[c].statuses, written)
            /\ conn' = [conn EXCEPT ![c] =
                        IF written = DOMAIN conn[c].statuses
                        THEN [@ EXCEPT !.pc = "disconnect_save"]
                        ELSE Gone("crashed")]
    /\ UNCHANGED <<ttl, group, now, answers, readied>>
    /\ Silent

\* del lobby.users[user_id]
RemoveUser(users, id) == [u \in DOMAIN users \ {id} |-> users[u]]

\* disconnect(): del lobby.users[self.user_id]; lobby.save()
disconnect_save(c) ==
    /\ NoPending
    /\ conn[c].pc = "disconnect_save"
    /\ IF conn[c].user_id \notin DOMAIN conn[c].local.users
       THEN /\ conn' = [conn EXCEPT ![c] = Gone("crashed")]
            /\ store' = store
       ELSE /\ store' = Save(conn[c].lobby_name,
                             [conn[c].local EXCEPT !.users = RemoveUser(@, conn[c].user_id)])
            /\ conn' = [conn EXCEPT ![c] = Gone("closed")]
    /\ UNCHANGED <<ttl, group, inbox, games, rank, now, answers, readied>>
    /\ Silent

(* ----------------------------- game.ready ------------------------------ *)
\* the question.data event of a batch: the formatted questions carry the
\* difficulty of each question and not its correct answer
QuestionData(batch) ==
    [type |-> "question.data",
     questions |-> [i \in DOMAIN batch |-> batch[i].difficulty]]

\* receive_game_ready(), the second ready: the game is started on the
\* local copy with the batch the provider returned
StartGame(lobby, batch) ==
    [lobby EXCEPT !.trivia_token = "FAKE_TOKEN",
                  !.state = IN_PROGRESS,
                  !.game_start_time = now,
                  !.correct_answers = batch,
                  !.question_start_time = now]

\* receive_game_ready() takes the ready of this socket
\* the start of a game as it would be if the questions were sent before
\* the game was announced
StartEventsQuestionsFirst(lobby, batch) ==
    << QuestionData(batch),
       [type |-> "game.start", users |-> DOMAIN lobby.users],
       [type |-> "question.next"] >>

\* the events the second game.ready broadcasts, in the order sent
StartEvents(lobby, batch) ==
    << [type |-> "game.start", users |-> DOMAIN lobby.users],
       QuestionData(batch),
       [type |-> "question.next"] >>

\* the check as it would be if it did not look at the socket's ready_sent
ReadyAcceptedAgain(lobby, ready_sent) ==
    ~(Cardinality(DOMAIN lobby.users) # 2 \/ lobby.ready_count >= 2)

ReadyAccepted(lobby, ready_sent) ==
    ~(Cardinality(DOMAIN lobby.users) # 2 \/ lobby.ready_count >= 2 \/ ready_sent)

\* receive_game_ready(): the lobby is read and the ready counted on the
\* local copy; the second ready starts the game and broadcasts game.start,
\* question.data and question.next.  The copy waits to be saved.
receive_game_ready(c) ==
    /\ NoPending
    /\ conn[c].status = "open"
    /\ conn[c].pc = "idle"
    /\ UNCHANGED <<store, ttl, group, games, rank, now, answers>>
    /\ Silent
    /\ readied' = IF Exists(conn[c].lobby_name)
                     /\ ReadyAccepted(store[conn[c].lobby_name], conn[c].ready_sent)
                  THEN readied \cup {conn[c].user_id} ELSE readied
    /\ LET name == conn[c].lobby_name
       IN  IF ~Exists(name)
           THEN conn' = [conn EXCEPT ![c] = Gone("crashed")] /\ inbox' = [inbox EXCEPT ![c] = <<>>]
           ELSE IF ~ReadyAccepted(store[name], conn[c].ready_sent)
           THEN UNCHANGED <<conn, inbox>>
           ELSE LET lobby == [store[name] EXCEPT !.ready_count = @ + 1]
                IN  IF lobby.ready_count = 1
                    THEN /\ conn' = [conn EXCEPT ![c] = [@ EXCEPT !.ready_sent = TRUE,
                                                                 !.pc = "game_ready_save",
                                                                 !.local = lobby]]
                         /\ inbox' = inbox
                    ELSE \E batch \in Batches :
                         /\ conn' = [conn EXCEPT ![c] = [@ EXCEPT !.ready_sent = TRUE,
                                                                 !.pc = "game_ready_save",
                                                                 !.local = StartGame(lobby, batch)]]
                         /\ inbox' = SendEventsToLobby(group, StartEvents(lobby, batch))

\* receive_game_ready(): lobby.save()
game_ready_save(c) ==
    /\ NoPending
    /\ conn[c].pc = "game_ready_save"
    /\ store' = Save(conn[c].lobby_name, conn[c].local)
    /\ conn' = [conn EXCEPT ![c] = [@ EXCEPT !.pc = "idle", !.local = NewLobby]]
    /\ UNCHANGED <<ttl, group, inbox, games, rank, now, answers, readied>>
    /\ Silent

(* -------------------------- question.answered -------------------------- *)
\* scoring as it would be if the time taken to answer did not count
CorrectlyAtAnyTime(lobby, answer) ==
    answer = lobby.correct_answers[lobby.current_question_count + 1].answer

\* the answer is scored as correct: it is the stored correct answer of the
\* current question and the question's time has not run out
Correctly(lobby, answer) ==
    LET correct_answer == lobby.correct_answers[lobby.current_question_count + 1]
        question_max_duration == QUESTION_MAX_DURATION_SECONDS_MAP[correct_answer.difficulty]
    IN  ~(answer # correct_answer.answer \/ now > lobby.question_start_time + question_max_duration)

\* the damage as it would be if a wrong answer cost both players
DamageBoth(lobby, user_id) ==
    LET damage == QUESTION_DIFFICULTY_DAMAGE_MAP[
                      lobby.correct_answers[lobby.current_question_count + 1].difficulty]
    IN  [lobby EXCEPT !.users = [u \in DOMAIN @ |-> @[u] - damage]]

\* lobby.users[user_id]["hp"] -= damage
Damage(lobby, user_id) ==
    LET correct_answer == lobby.correct_answers[lobby.current_question_count + 1]
        damage == QUESTION_DIFFICULTY_DAMAGE_MAP[correct_answer.difficulty]
    IN  [lobby EXCEPT !.users[user_id] = @ - damage]

\* the end of the game as it would be if only lost hp ended it
GameOverOnHp(lobby) ==
    \E u \in DOMAIN lobby.users : lobby.users[u] <= 0

\* both users have answered and the game is over
GameOver(lobby) ==
    \/ \E u \in DOMAIN lobby.users : lobby.users[u] <= 0
    \/ now > lobby.game_start_time + GAME_MAX_DURATION_SECONDS

\* the next question as it would be if the count went on past the batch
NextQuestionNoReset(lobby, batch) ==
    [lobby EXCEPT !.current_question_count = @ + 1,
                  !.current_answer_count = 0,
                  !.question_start_time = now]

\* the next question is made current; the last question of a batch is
\* followed by the first of a new batch
NextQuestion(lobby, batch) ==
    LET counted == IF lobby.current_question_count = TRIVIA_API_QUESTION_AMOUNT - 1
                   THEN [lobby EXCEPT !.current_question_count = 0,
                                      !.correct_answers = batch]
                   ELSE [lobby EXCEPT !.current_question_count = @ + 1]
    IN  [counted EXCEPT !.current_answer_count = 0, !.question_start_time = now]

\* receive_question_answered() as it would be without the check
AnsweredAlreadyUnchecked(c) == FALSE

\* if self.question_answered: return
AnsweredAlready(c) == conn[c].question_answered

\* the user.answered event of an answer scored on `lobby`
UserAnswered(lobby, user_id, answer) ==
    LET correct_answer == lobby.correct_answers[lobby.current_question_count + 1]
        correctly == Correctly(lobby, answer)
    IN  [type |-> "user.answered",
         user_id |-> user_id,
         correctly |-> correctly,
         correct_answer |-> correct_answer.answer,
         damage |-> IF correctly THEN 0
                    ELSE QUESTION_DIFFICULTY_DAMAGE_MAP[correct_answer.difficulty]]

\* the events of a second answer as they would be if question.data were
\* sent before user.answered
SecondAnswerEventsDataFirst(lobby, event, batch) ==
    IF lobby.current_question_count = TRIVIA_API_QUESTION_AMOUNT - 1
    THEN <<QuestionData(batch), event>> ELSE <<event>>

\* what a second answer that does not end the game broadcasts before the
\* lobby is saved: user.answered and, at the end of a batch, question.data
SecondAnswerEvents(lobby, event, batch) ==
    IF lobby.current_question_count = TRIVIA_API_QUESTION_AMOUNT - 1
    THEN <<event, QuestionData(batch)>> ELSE <<event>>

\* receive_question_answered(): the lobby is read and the answer scored on
\* the local copy; user.answered is broadcast, and question.data with it
\* when a new batch is fetched.  A first answer is counted, a second answer ends the
\* game or moves to the next question; what follows waits for its store
\* access.  The exceptions are those of the indexing at lines 260, 269 and
\* 440.
receive_question_answered(c, answer) ==
    /\ NoPending
    /\ conn[c].status = "open"
    /\ conn[c].pc = "idle"
    /\ answers < MaxAnswers
    /\ conn[NumConns].status = "new"
    /\ UNCHANGED <<store, ttl, group, games, rank, now, readied>>
    /\ frame' = <<c, [type |-> "question.answered", answer |-> answer]>>
    /\ UNCHANGED <<requests, faults>>
    /\ answers' = IF Exists(conn[c].lobby_name) /\ AnsweredAlready(c)
                  THEN answers ELSE answers + 1
    /\ LET name == conn[c].lobby_name
           id == conn[c].user_id
           crash == conn' = [conn EXCEPT ![c] = Gone("crashed")] /\ inbox' = [inbox EXCEPT ![c] = <<>>]
       IN  IF ~Exists(name) THEN crash
           ELSE IF AnsweredAlready(c) THEN UNCHANGED <<conn, inbox>>
           ELSE IF store[name].current_question_count >= Len(store[name].correct_answers) THEN crash
           ELSE IF ~Correctly(store[name], answer) /\ id \notin DOMAIN store[name].users THEN crash
           ELSE LET lobby == IF Correctly(store[name], answer)
                             THEN store[name] ELSE Damage(store[name], id)
                    answered == [conn[c] EXCEPT !.question_answered = TRUE, !.local = lobby]
                    event == UserAnswered(store[name], id, answer)
                IN  IF lobby.current_answer_count = 0
                    THEN /\ conn' = [conn EXCEPT ![c] =
                                [answered EXCEPT !.pc = "answered_first",
                                                 !.local.current_answer_count = @ + 1]]
                         /\ inbox' = SendEventsToLobby(group, <<event>>)
                    ELSE IF GameOver(lobby)
                    THEN IF Cardinality(DOMAIN lobby.users) < 2
                         THEN /\ conn' = [conn EXCEPT ![c] = Gone("crashed")]
                              /\ inbox' = [SendEventsToLobby(group, <<event>>) EXCEPT ![c] = <<>>]
                         ELSE /\ conn' = [conn EXCEPT ![c] =
                                [answered EXCEPT !.pc = "answered_game_end",
                                                 !.statuses = determine_user_status_by_hp(
                                                     Items(lobby.users, DOMAIN lobby.users))]]
                              /\ inbox' = SendEventsToLobby(group, <<event>>)
                    ELSE \E batch \in Batches :
                         /\ conn' = [conn EXCEPT ![c] =
                                [answered EXCEPT !.pc = "answered_next",
                                                 !.local = NextQuestion(lobby, batch)]]
                         /\ inbox' = SendEventsToLobby(group,
                                SecondAnswerEvents(lobby, event, batch))

\* receive_question_answered(), first answer: lobby.save()
answered_first(c) ==
    /\ NoPending
    /\ conn[c].pc = "answered_first"
    /\ store' = Save(conn[c].lobby_name, conn[c].local)
    /\ conn' = [conn EXCEPT ![c] = [@ EXCEPT !.pc = "idle", !.local = NewLobby]]
    /\ UNCHANGED <<ttl, group, inbox, games, rank, now, answers, readied>>
    /\ Silent

\* receive_question_answered(), second answer, game over: handle_game_end
answered_game_end(c) ==
    /\ NoPending
    /\ conn[c].pc = "answered_game_end"
    /\ IF ~Exists(conn[c].lobby_name)
       THEN /\ conn' = [conn EXCEPT ![c] = Gone("crashed")]
            /\ inbox' = [inbox EXCEPT ![c] = <<>>]
            /\ UNCHANGED <<store, games, rank>>
       ELSE \E written \in WrittenRows(conn[c].statuses) :
            /\ handle_game_end(c, conn[c].statuses, written)
            /\ conn' = [conn EXCEPT ![c] =
                        IF written = DOMAIN conn[c].statuses
                        THEN [@ EXCEPT !.pc = "idle", !.local = NewLobby,
                                       !.statuses = NoUsers]
                        ELSE Gone("crashed")]
    /\ UNCHANGED <<ttl, group, now, answers, readied>>
    /\ Silent

\* receive_question_answered(), second answer, game goes on: lobby.save(),
\* then question.next is broadcast
answered_next(c) ==
    /\ NoPending
    /\ conn[c].pc = "answered_next"
    /\ store' = Save(conn[c].lobby_name, conn[c].local)
    /\ conn' = [conn EXCEPT ![c] = [@ EXCEPT !.pc = "idle", !.local = NewLobby]]
    /\ inbox' = SendEventToLobby(group, [type |-> "question.next"])
    /\ UNCHANGED <<ttl, group, games, rank, now, answers, readied>>
    /\ Silent

(* ------------------------ channel layer events ------------------------- *)
Handles(c, type) ==
    /\ conn[c].status = "open"
    /\ conn[c].pc = "idle"
    /\ inbox[c] # <<>>
    /\ Head(inbox[c]).type = type

\* the frame a consumer sends its client
Send(c, message) == frame' = <<c, message>> /\ UNCHANGED <<requests, faults>>

\* receive_fifty_request() as it would be without the check of fifty_used
FiftyUsedIgnored(c) == FALSE

\* the consumer has already taken a fifty.request
FiftyUsed(c) == conn[c].fifty_used

\* incorrect_answers = tuple(answer for answer in event["answers"]
\*                           if answer != correct_answer)
IncorrectAnswers(choices, correct_answer) ==
    SelectSeq(choices, LAMBDA answer : answer # correct_answer)

\* random.sample(incorrect_answers, k=2): the elements at two different
\* positions, in either order
Samples(incorrect_answers) ==
    { <<incorrect_answers[i], incorrect_answers[j]>> :
        <<i, j>> \in { p \in (1..Len(incorrect_answers)) \X (1..Len(incorrect_answers)) :
                         p[1] # p[2] } }

\* receive_fifty_request(): a client sends {"type": "fifty.request",
\* "answers": choices}.  A consumer that has used its fifty ignores it;
\* otherwise the fifty is used up, the lobby is read, and two of the
\* incorrect answers are sent back unless the question is boolean or the
\* list is not four answers of which exactly three differ from the correct
\* one.  A lobby that is gone or has no question ends the consumer.
receive_fifty_request(c, choices) ==
    /\ conn[c].status = "open"
    /\ conn[c].pc = "idle"
    /\ UNCHANGED <<store, ttl, group, inbox, games, rank, now, answers, readied>>
    /\ LET name == conn[c].lobby_name
           used == [conn EXCEPT ![c].fifty_used = TRUE]
       IN  IF FiftyUsed(c)
           THEN UNCHANGED conn /\ Silent
           ELSE IF \/ ~Exists(name)
                   \/ store[name].current_question_count >= Len(store[name].correct_answers)
           THEN conn' = [conn EXCEPT ![c] = Gone("crashed")] /\ Silent
           ELSE LET correct_answer ==
                        store[name].correct_answers[store[name].current_question_count + 1].answer
                    incorrect_answers == IncorrectAnswers(choices, correct_answer)
                IN  /\ conn' = used
                    /\ IF correct_answer \in {"True", "False"} \/ Len(choices) # 4
                       THEN Silent
                       ELSE IF Len(incorrect_answers) # 3
                       THEN Silent
                       ELSE \E sample \in Samples(incorrect_answers) :
                               Send(c, [type |-> "fifty.response",
                                        incorrect_answers |-> sample])

\* game_start(): the opponent's name is looked up under the own user id
game_start(c) ==
    /\ Handles(c, "game.start")
    /\ IF conn[c].user_id \in Head(inbox[c]).users
       THEN /\ conn' = conn
            /\ inbox' = [inbox EXCEPT ![c] = Tail(@)]
            /\ Send(c, [type |-> "game.start",
                        duration |-> GAME_MAX_DURATION_SECONDS,
                        opponent |-> Head(inbox[c]).users \ {conn[c].user_id}])
       ELSE /\ conn' = [conn EXCEPT ![c] = Gone("crashed")]
            /\ inbox' = [inbox EXCEPT ![c] = <<>>]
            /\ Silent
    /\ UNCHANGED <<store, ttl, group, games, rank, now, answers, readied>>

\* game_prepare()
game_prepare(c) ==
    /\ Handles(c, "game.prepare")
    /\ Send(c, Head(inbox[c]))
    /\ inbox' = [inbox EXCEPT ![c] = Tail(@)]
    /\ UNCHANGED <<store, ttl, conn, group, games, rank, now, answers, readied>>

\* question_data()
question_data(c) ==
    /\ Handles(c, "question.data")
    /\ Send(c, Head(inbox[c]))
    /\ inbox' = [inbox EXCEPT ![c] = Tail(@)]
    /\ UNCHANGED <<store, ttl, conn, group, games, rank, now, answers, readied>>

\* question_next()
question_next(c) ==
    /\ Handles(c, "question.next")
    /\ conn' = [conn EXCEPT ![c] = [@ EXCEPT !.question_answered = FALSE]]
    /\ Send(c, Head(inbox[c]))
    /\ inbox' = [inbox EXCEPT ![c] = Tail(@)]
    /\ UNCHANGED <<store, ttl, group, games, rank, now, answers, readied>>

\* user_answered() as it would be if it left the correct answer in the
\* frame for the opponent
UserAnsweredFrameWithAnswer(event, user_id) ==
    [type |-> IF event.user_id = user_id THEN "question.result" ELSE "opponent.answered",
     correctly |-> event.correctly,
     correct_answer |-> event.correct_answer,
     damage |-> event.damage]

\* the frame user_answered() makes of a user.answered event for the
\* consumer of `user_id`
UserAnsweredFrame(event, user_id) ==
    IF event.user_id = user_id
    THEN [type |-> "question.result",
          correctly |-> event.correctly,
          correct_answer |-> event.correct_answer,
          damage |-> event.damage]
    ELSE [type |-> "opponent.answered",
          correctly |-> event.correctly,
          damage |-> event.damage]

\* user_answered()
user_answered(c) ==
    /\ Handles(c, "user.answered")
    /\ Send(c, UserAnsweredFrame(Head(inbox[c]), conn[c].user_id))
    /\ inbox' = [inbox EXCEPT ![c] = Tail(@)]
    /\ UNCHANGED <<store, ttl, conn, group, games, rank, now, answers, readied>>

\* GameStatus(status).name.lower()
StatusName(status) ==
    CASE status = WIN -> "win"
      [] status = LOSS -> "loss"
      [] status = DRAW -> "draw"

\* the frame game_end() makes of a game.end event for the consumer of
\* `user_id`
GameEndFrame(event, user_id) ==
    [type |-> "game.end",
     status |-> StatusName(event.users[user_id]),
     rank_gain |-> event.rank_gain[user_id]]

\* game_end(): the own status and rank gain are sent and the socket closed;
\* disconnect() follows
game_end(c) ==
    /\ Handles(c, "game.end")
    /\ IF conn[c].user_id \in DOMAIN Head(inbox[c]).users
       THEN /\ conn' = [conn EXCEPT ![c] = Leaving(c)]
            /\ Send(c, GameEndFrame(Head(inbox[c]), conn[c].user_id))
       ELSE /\ conn' = [conn EXCEPT ![c] = Gone("crashed")]
            /\ Silent
    /\ inbox' = [inbox EXCEPT ![c] = <<>>]
    /\ UNCHANGED <<store, ttl, group, games, rank, now, answers, readied>>

(* ------------------------------- clock --------------------------------- *)
Expired(t) == {n \in DOMAIN ttl : ttl[n] <= t}

\* some deadline is running: a key's TTL, or the clocks of a game in
\* progress in the store or in a handler's copy
DeadlinePending ==
    \/ DOMAIN ttl # {}
    \/ \E n \in DOMAIN store : store[n].state = IN_PROGRESS
    \/ \E c \in Conns : conn[c].local.state = IN_PROGRESS

\* Time passes; a key whose TTL has run out is gone from the store.  The
\* clock is followed while a deadline is running.
Elapse ==
    /\ NoPending
    /\ now < MaxTime
    /\ now' = now + 1
    /\ store' = [n \in DOMAIN store \ Expired(now + 1) |-> store[n]]
    /\ ttl' = [n \in DOMAIN ttl \ Expired(now + 1) |-> ttl[n]]
    /\ UNCHANGED <<conn, group, inbox, games, rank, answers, readied>>
    /\ Silent

\* a second passes while a deadline is pending
Tick == DeadlinePending /\ Elapse

(* ------------------------------ behaviour ------------------------------ *)
\* what the server does by itself once a message has arrived
ServerStep ==
    \E c \in Conns :
        \/ connect_save(c)
        \/ conn[c].status \in {"denied", "closing"} /\ disconnect(c)
        \/ disconnect_delete(c)
        \/ disconnect_game_end(c)
        \/ disconnect_save(c)
        \/ game_ready_save(c)
        \/ answered_first(c)
        \/ answered_game_end(c)
        \/ answered_next(c)
        \/ game_prepare(c)
        \/ game_start(c)
        \/ question_data(c)
        \/ question_next(c)
        \/ user_answered(c)
        \/ game_end(c)

Next ==
    \/ \E c \in Conns, name \in LobbyNames, tok \in Tokens : connect(c, name, tok)
    \/ \E c \in Conns : connect_save(c)
    \/ \E c \in Conns : disconnect(c)
    \/ \E c \in Conns : disconnect_delete(c)
    \/ \E c \in Conns : disconnect_game_end(c)
    \/ \E c \in Conns : disconnect_save(c)
    \/ \E c \in Conns : receive_game_ready(c)
    \/ \E c \in Conns : game_ready_save(c)
    \/ \E c \in Conns, answer \in ClientAnswers : receive_question_answered(c, answer)
    \/ \E c \in Conns : answered_first(c)
    \/ \E c \in Conns : answered_game_end(c)
    \/ \E c \in Conns : answered_next(c)
    \/ \E c \in Conns : game_prepare(c)
    \/ \E c \in Conns : game_start(c)
    \/ \E c \in Conns : question_data(c)
    \/ \E c \in Conns : question_next(c)
    \/ \E c \in Conns : user_answered(c)
    \/ \E c \in Conns : game_end(c)
    \/ Tick

Spec == Init /\ [][Next]_vars

\* The server finishes what it has begun and the clock advances; a client
\* is free never to send anything.
LiveSpec == Spec /\ WF_vars(ServerStep) /\ WF_vars(Tick)

(* ------------------------- a game under way ---------------------------- *)
\* hp a player can be left with by wrong answers to questions of mixed
\* difficulty
PriorHp == {10, 20, 30}

\* A game as it stands when a question has just been announced: users 1
\* and 2 are connected on sockets 1 and 2, both have readied, and earlier
\* questions have cost each of them some hp.
PlayInit ==
    /\ now = 0
    /\ \E ranked \in {0, 1}, hp1, hp2 \in PriorHp, batch \in Batches :
          store = (LobbyName :>
                     [StartGame([NewLobby EXCEPT !.ranked = ranked], batch)
                        EXCEPT !.users = (1 :> hp1) @@ (2 :> hp2),
                               !.ready_count = 2,
                               !.game_start_time = 0,
                               !.question_start_time = 0])
    /\ ttl = <<>>
    /\ conn = [c \in Conns |->
                 IF c \in {1, 2}
                 THEN [NewConn EXCEPT !.lobby_name = LobbyName, !.status = "open",
                                      !.user_id = c, !.ready_sent = TRUE]
                 ELSE NewConn]
    /\ group = {1, 2}
    /\ inbox = [c \in Conns |-> <<>>]
    /\ games = <<>>
    /\ rank = [u \in Users |-> IF u = 1 THEN 0 ELSE USER_STARTING_RANK]
    /\ answers = 0
    /\ readied = {1, 2}
    /\ frame = <<>>
    /\ requests = [r \in Requests |-> NoRequest]
    /\ faults = NoFaults

\* the steps of answering and of ending the game on an answer
PlayNext ==
    \/ \E c \in Conns :
        \/ \E answer \in ClientAnswers : receive_question_answered(c, answer)
        \/ answered_first(c)
        \/ answered_game_end(c)
        \/ answered_next(c)
        \/ user_answered(c)
        \/ question_data(c)
        \/ question_next(c)
        \/ game_end(c)

PlaySpec == PlayInit /\ [][PlayNext]_vars

\* ------------------------------------------------------------------------
\* The fifty-fifty lifeline: two players attached to a lobby that is waiting
\* or is at either question of a batch of multiple-choice and boolean
\* questions, and clients that send fifty.request with any list of three to
\* MaxChoices answers.

Choices == {"A", "B", "C", "D"}

AnswerLists == UNION { [1..n -> Choices] : n \in 3..MaxChoices }

FiftyBatches ==
    { << [answer |-> "A", difficulty |-> "hard"],
         [answer |-> "True", difficulty |-> "easy"] >>,
      << [answer |-> "B", difficulty |-> "medium"],
         [answer |-> "C", difficulty |-> "hard"] >>,
      << [answer |-> "False", difficulty |-> "easy"],
         [answer |-> "D", difficulty |-> "medium"] >> }

FiftyInit ==
    /\ now = 0
    /\ \E started \in BOOLEAN, count \in 0..(TRIVIA_API_QUESTION_AMOUNT - 1),
          batch \in FiftyBatches :
          /\ store = (LobbyName :>
                        IF started
                        THEN [StartGame(NewLobby, batch)
                                EXCEPT !.users = (1 :> 100) @@ (2 :> 100),
                                       !.ready_count = 2,
                                       !.current_question_count = count]
                        ELSE [NewLobby EXCEPT !.users = (1 :> 100) @@ (2 :> 100)])
          /\ conn = [c \in Conns |->
                       IF c \in {1, 2}
                       THEN [NewConn EXCEPT !.lobby_name = LobbyName, !.status = "open",
                                            !.user_id = c, !.ready_sent = started]
                       ELSE NewConn]
          /\ readied = IF started THEN {1, 2} ELSE {}
    /\ ttl = <<>>
    /\ group = {1, 2}
    /\ inbox = [c \in Conns |-> <<>>]
    /\ games = <<>>
    /\ rank = [u \in Users |-> USER_STARTING_RANK]
    /\ answers = 0
    /\ frame = <<>>
    /\ requests = [r \in Requests |-> NoRequest]
    /\ faults = NoFaults

FiftyNext ==
    \E c \in Conns, choices \in AnswerLists : receive_fifty_request(c, choices)

FiftySpec == FiftyInit /\ [][FiftyNext]_vars

\* ------------------------------------------------------------------------
\* The lobby views.  An HTTP response is the frame <<request, response>>.

\* generate_lobby_token(user, lobby_name): the payload of the signed token
generate_lobby_token(user, lobby_name) ==
    [kind |-> "ok", id |-> user, lobby_name |-> lobby_name]

\* the views call generate_lobby_token(request.user), without the lobby
\* name the function requires: the call raises TypeError
TokenIssued == FALSE

\* Lobby.find(Lobby.name == value).all()
Find(name) == {n \in DOMAIN store : n = name}

\* LobbyViewSet.create() up to serializer.is_valid(): a name that is found
\* in the store is refused with 400, any other request goes on to be saved
create(r, name, ranked, user) ==
    /\ requests[r].pc = "idle"
    /\ \A q \in Requests : q < r => requests[q].pc # "idle"
    /\ UNCHANGED <<store, ttl, conn, group, inbox, games, rank, now, answers, readied,
                   faults>>
    /\ IF Find(name) # {}
       THEN /\ frame' = <<r, [type |-> "http.response", status |-> 400]>>
            /\ UNCHANGED requests
       ELSE /\ frame' = <<>>
            /\ requests' = [requests EXCEPT ![r] = [pc |-> "create_save", name |-> name,
                                                    ranked |-> ranked, user |-> user]]

\* LobbyViewSet.create() from lobby.save(): the new lobby is written over
\* whatever the key holds, the token is generated, the key is given its
\* expiry and the token is returned with 201; a token that cannot be
\* generated ends the request with 500 before the expiry is set
create_save(r) ==
    /\ requests[r].pc = "create_save"
    /\ LET name == requests[r].name
       IN  /\ store' = Save(name, [NewLobby EXCEPT !.ranked = requests[r].ranked])
           /\ IF TokenIssued
              THEN /\ ttl' = [n \in DOMAIN ttl \cup {name} |->
                                IF n = name THEN now + LOBBY_EXPIRE_SECONDS ELSE ttl[n]]
                   /\ frame' = <<r, [type |-> "http.response", status |-> 201,
                                     token |-> generate_lobby_token(requests[r].user, name)]>>
              ELSE /\ ttl' = ttl
                   /\ frame' = <<r, [type |-> "http.response", status |-> 500]>>
    /\ requests' = [requests EXCEPT ![r] = [NoRequest EXCEPT !.pc = "done"]]
    /\ UNCHANGED <<conn, group, inbox, games, rank, now, answers, readied, faults>>

\* LobbyViewSet.join()
join(r, name, user) ==
    /\ requests[r].pc = "idle"
    /\ \A q \in Requests : q < r => requests[q].pc # "idle"
    /\ frame' = <<r, IF ~Exists(name)
                     THEN [type |-> "http.response", status |-> 404]
                     ELSE IF Cardinality(DOMAIN store[name].users) > 1
                     THEN [type |-> "http.response", status |-> 400]
                     ELSE IF user \in DOMAIN store[name].users
                     THEN [type |-> "http.response", status |-> 400]
                     ELSE IF TokenIssued
                     THEN [type |-> "http.response", status |-> 200,
                           token |-> generate_lobby_token(user, name)]
                     ELSE [type |-> "http.response", status |-> 500]>>
    /\ UNCHANGED <<store, ttl, conn, group, inbox, games, rank, now, answers, readied,
                   requests, faults>>

\* Lobbies are created and joined through the views while sockets connect:
\* the store starts empty.
AdmissionInit ==
    /\ store = <<>>
    /\ ttl = <<>>
    /\ conn = [c \in Conns |-> NewConn]
    /\ group = {}
    /\ inbox = [c \in Conns |-> <<>>]
    /\ games = <<>>
    /\ rank = [u \in Users |-> USER_STARTING_RANK]
    /\ now = 0
    /\ answers = 0
    /\ readied = {}
    /\ frame = <<>>
    /\ requests = [r \in Requests |-> NoRequest]
    /\ faults = NoFaults

AdmissionNext ==
    \/ \E r \in Requests, name \in LobbyNames, ranked \in {0, 1}, user \in Users :
          create(r, name, ranked, user)
    \/ \E r \in Requests : create_save(r)
    \/ \E r \in Requests, name \in LobbyNames, user \in Users : join(r, name, user)
    \/ \E c \in Conns, name \in LobbyNames, tok \in Tokens : connect(c, name, tok)
    \/ \E c \in Conns : connect_save(c)
    \/ \E c \in Conns : game_prepare(c)
    \/ Elapse

AdmissionSpec == AdmissionInit /\ [][AdmissionNext]_vars

\* ------------------------------------------------------------------------
\* Failures.  Lobby.save() and the calls of TriviaAPIClient raise when the
\* store or the provider cannot be reached.  No handler catches anything,
\* so the exception ends the consumer as any other does: its socket is
\* closed without disconnect() being run.

Fails(kind) ==
    /\ faults.left > 0
    /\ faults' = [left |-> faults.left - 1, seen |-> faults.seen \cup {kind}]

\* the consumer a handler's exception leaves behind
Raised(c) == Gone("crashed")

\* lobby.save() raises in receive_game_ready or receive_question_answered:
\* the flag was set and the events before the save were sent, nothing is
\* stored, and question.next that follows the save is not sent
save_fails(c) ==
    /\ NoPending
    /\ conn[c].pc \in {"game_ready_save", "answered_first", "answered_next"}
    /\ Fails("store")
    /\ conn' = [conn EXCEPT ![c] = Raised(c)]
    /\ inbox' = [inbox EXCEPT ![c] = <<>>]
    /\ frame' = <<>>
    /\ UNCHANGED <<store, ttl, group, games, rank, now, answers, readied, requests>>

\* receive_game_ready() of the second ready player when the provider fails:
\* get_token() raises before anything is sent, get_questions() raises after
\* game.start was broadcast; nothing is stored
game_ready_provider_fails(c) ==
    /\ NoPending
    /\ conn[c].status = "open"
    /\ conn[c].pc = "idle"
    /\ Exists(conn[c].lobby_name)
    /\ ReadyAccepted(store[conn[c].lobby_name], conn[c].ready_sent)
    /\ store[conn[c].lobby_name].ready_count = 1
    /\ Fails("provider")
    /\ \E call \in {"get_token", "get_questions"} :
          inbox' = [IF call = "get_token"
                    THEN inbox
                    ELSE SendEventsToLobby(group,
                            << [type |-> "game.start",
                                users |-> DOMAIN store[conn[c].lobby_name].users] >>)
                      EXCEPT ![c] = <<>>]
    /\ conn' = [conn EXCEPT ![c] = Raised(c)]
    /\ readied' = readied \cup {conn[c].user_id}
    /\ frame' = <<>>
    /\ UNCHANGED <<store, ttl, group, games, rank, now, answers, requests>>

\* receive_question_answered() of the second answer to the last question of
\* a batch when get_questions() raises: user.answered was broadcast,
\* nothing is stored
answered_provider_fails(c, answer) ==
    /\ NoPending
    /\ conn[c].status = "open"
    /\ conn[c].pc = "idle"
    /\ answers < MaxAnswers
    /\ Exists(conn[c].lobby_name)
    /\ ~AnsweredAlready(c)
    /\ LET name == conn[c].lobby_name
           id == conn[c].user_id
       IN  /\ store[name].current_question_count < Len(store[name].correct_answers)
           /\ id \in DOMAIN store[name].users
           /\ LET lobby == IF Correctly(store[name], answer)
                           THEN store[name] ELSE Damage(store[name], id)
              IN  /\ lobby.current_answer_count # 0
                  /\ ~GameOver(lobby)
                  /\ lobby.current_question_count = TRIVIA_API_QUESTION_AMOUNT - 1
           /\ inbox' = [SendEventsToLobby(group, <<UserAnswered(store[name], id, answer)>>)
                          EXCEPT ![c] = <<>>]
    /\ Fails("provider")
    /\ conn' = [conn EXCEPT ![c] = Raised(c)]
    /\ answers' = answers + 1
    /\ frame' = <<c, [type |-> "question.answered", answer |-> answer]>>
    /\ UNCHANGED <<store, ttl, group, games, rank, now, readied, requests>>

\* Two players are attached to a waiting lobby, and up to MaxFaults calls
\* of the store or the provider fail while they play.
FaultInit ==
    /\ \E ranked \in {0, 1} :
          store = (LobbyName :> [NewLobby EXCEPT !.ranked = ranked,
                                                 !.users = (1 :> 100) @@ (2 :> 100)])
    /\ ttl = <<>>
    /\ conn = [c \in Conns |->
                 IF c \in {1, 2}
                 THEN [NewConn EXCEPT !.lobby_name = LobbyName, !.status = "open",
                                      !.user_id = c]
                 ELSE NewConn]
    /\ group = {1, 2}
    /\ inbox = [c \in Conns |-> <<>>]
    /\ games = <<>>
    /\ rank = [u \in Users |-> USER_STARTING_RANK]
    /\ now = 0
    /\ answers = 0
    /\ readied = {}
    /\ frame = <<>>
    /\ requests = [r \in Requests |-> NoRequest]
    /\ faults = [left |-> MaxFaults, seen |-> {}]

FaultNext ==
    \/ \E c \in Conns : receive_game_ready(c)
    \/ \E c \in Conns : game_ready_save(c)
    \/ \E c \in Conns : game_ready_provider_fails(c)
    \/ \E c \in Conns, answer \in ClientAnswers : receive_question_answered(c, answer)
    \/ \E c \in Conns, answer \in ClientAnswers : answered_provider_fails(c, answer)
    \/ \E c \in Conns : answered_first(c)
    \/ \E c \in Conns : answered_game_end(c)
    \/ \E c \in Conns : answered_next(c)
    \/ \E c \in Conns : save_fails(c)
    \/ \E c \in Conns : game_start(c)
    \/ \E c \in Conns : question_data(c)
    \/ \E c \in Conns : question_next(c)
    \/ \E c \in Conns : user_answered(c)
    \/ \E c \in Conns : game_end(c)
    \/ Tick

FaultSpec == FaultInit /\ [][FaultNext]_vars

(* ----------------------------- properties ------------------------------ *)
Last(s) == s[Len(s)]

\* the lobby is stored and a game is in progress in it
Playing == Exists(LobbyName) /\ store[LobbyName].state = IN_PROGRESS

\* no handler is between two store accesses and no event waits for one
Quiet == \A c \in Conns : conn[c].pc = "idle" /\ inbox[c] = <<>>

\* C1: the question.answered of the two players of a game, however their
\* handlers interleave, resolve the question as one of the two serial orders
\* does: a game in progress is never left with the answers of both players
\* taken, no handler running and no question.next or game.end on its way.
C1_AnswersResolveQuestion ==
    \A c, d \in Conns :
        ( /\ Playing
          /\ conn[c].status = "open" /\ conn[d].status = "open"
          /\ conn[c].user_id # conn[d].user_id
          /\ DOMAIN store[LobbyName].users = {conn[c].user_id, conn[d].user_id}
          /\ conn[c].question_answered /\ conn[d].question_answered )
        => ~Quiet

\* C2: the hp of every user of the stored lobby stays within 0..100 and no
\* step raises it.
C2_HpBoundedNonIncreasing ==
    [][ Exists(LobbyName) /\ Exists(LobbyName)' =>
          \A u \in DOMAIN store[LobbyName].users \cap DOMAIN store'[LobbyName].users :
              /\ store'[LobbyName].users[u] <= store[LobbyName].users[u]
              /\ store'[LobbyName].users[u] >= 0
              /\ store'[LobbyName].users[u] <= 100 ]_vars

\* a user of the stored lobby has hp below 0
C2_NegativeHp ==
    /\ Exists(LobbyName)
    /\ \E u \in DOMAIN store[LobbyName].users : store[LobbyName].users[u] < 0

\* the time the current question allows has run out
QuestionDeadlinePassed ==
    LET lobby == store[LobbyName]
    IN  /\ lobby.current_question_count < Len(lobby.correct_answers)
        /\ now > lobby.question_start_time + QUESTION_MAX_DURATION_SECONDS_MAP[
                    lobby.correct_answers[lobby.current_question_count + 1].difficulty]

\* C3: in a game in progress whose current question has run out of time the
\* server has a step of its own to take (the answer it submits for a silent
\* player), so the question is resolved without any client message.
C3_ServerAnswersForSilentPlayer ==
    (Playing /\ QuestionDeadlinePassed) => ENABLED ServerStep

\* C4: in a game in progress that has run past the game's maximum duration
\* the server has a step of its own to take (ending the game by hp), so the
\* game reaches FINISHED without any client message.
C4_ServerEndsGamePastDeadline ==
    (Playing /\ now > store[LobbyName].game_start_time + GAME_MAX_DURATION_SECONDS)
    => ENABLED ServerStep

\* C5: a stored lobby in state IN_PROGRESS has exactly two users and
\* ready_count 2.
C5_InProgressHasTwoReadyUsers ==
    Playing => /\ Cardinality(DOMAIN store[LobbyName].users) = 2
               /\ store[LobbyName].ready_count = 2

\* C6: a player who disconnects from a game in progress between two users,
\* itself one of them, loses it.  disconnect() unsubscribes the player and
\* goes on to end the game with LOSS for the player and WIN for the
\* opponent; its handle_game_end marks the lobby FINISHED, writes the Game
\* with the player's row LOSS and the opponent's WIN and queues game.end
\* with these statuses, WIN for the opponent, for every socket still
\* subscribed; and the save that ends disconnect() leaves the player out of
\* users.
C6_DisconnectLosesGame ==
    [][ \A c \in Conns :
          LET id == conn[c].user_id
              read == conn[c].local.users
          IN  /\ ( /\ conn[c].pc = "idle" /\ conn'[c].pc # "idle"
                   /\ conn'[c].status = "closing"
                   /\ Playing
                   /\ Cardinality(DOMAIN store[LobbyName].users) = 2
                   /\ id \in DOMAIN store[LobbyName].users ) =>
                    /\ conn'[c].pc = "disconnect_game_end"
                    /\ c \notin group'
                    /\ DOMAIN conn'[c].statuses = DOMAIN store[LobbyName].users
                    /\ conn'[c].statuses[id] = LOSS
                    /\ \A u \in DOMAIN conn'[c].statuses \ {id} : conn'[c].statuses[u] = WIN
              /\ ( /\ conn[c].pc = "disconnect_game_end" /\ conn'[c].pc = "disconnect_save"
                   /\ Cardinality(DOMAIN read) = 2
                   /\ id \in DOMAIN read ) =>
                    /\ store'[LobbyName].state = FINISHED
                    /\ games' = Append(games, Last(games'))
                    /\ DOMAIN Last(games').rows = DOMAIN read
                    /\ Last(games').rows[id] = LOSS
                    /\ \A u \in DOMAIN read \ {id} : Last(games').rows[u] = WIN
                    /\ \A d \in group : Live(d) =>
                          /\ inbox'[d] = Append(inbox[d], Last(inbox'[d]))
                          /\ Last(inbox'[d]).type = "game.end"
                          /\ DOMAIN Last(inbox'[d]).users = DOMAIN read
                          /\ Last(inbox'[d]).users[id] = LOSS
                          /\ \A u \in DOMAIN read \ {id} : Last(inbox'[d]).users[u] = WIN
              /\ ( conn[c].pc = "disconnect_save" /\ conn'[c].status = "closed" ) =>
                    id \notin DOMAIN store'[LobbyName].users ]_vars

\* a player has left a game in progress: the Game is written with the
\* player's LOSS, game.end with WIN waits for the opponent's socket and the
\* player's last save is still to come
C6_Witness ==
    \E c, d \in Conns :
        /\ conn[c].pc = "disconnect_save"
        /\ conn[c].local.state = IN_PROGRESS
        /\ DOMAIN conn[c].local.users = {conn[c].user_id, conn[d].user_id}
        /\ conn[c].user_id # conn[d].user_id
        /\ Len(games) = 1
        /\ games[1].rows[conn[c].user_id] = LOSS
        /\ games[1].rows[conn[d].user_id] = WIN
        /\ store[LobbyName].state = FINISHED
        /\ conn[d].status = "open"
        /\ inbox[d] # <<>>
        /\ Last(inbox[d]).type = "game.end"
        /\ Last(inbox[d]).users[conn[d].user_id] = WIN

\* C7: the stored lobby goes from WAITING to IN_PROGRESS only with two
\* users, each of whom has sent a game.ready that was taken.
C7_StartNeedsBothReady ==
    [][ ( /\ Exists(LobbyName) /\ Exists(LobbyName)'
          /\ store[LobbyName].state = WAITING
          /\ store'[LobbyName].state = IN_PROGRESS ) =>
          /\ Cardinality(DOMAIN store'[LobbyName].users) = 2
          /\ DOMAIN store'[LobbyName].users \subseteq readied ]_vars

\* C8: when a socket has attached to the lobby and every socket has run its
\* disconnect() to the end, the lobby is not in the store.
C8_LobbyGoneWhenAllDetached ==
    ( /\ \E c \in Conns : conn[c].status = "closed"
      /\ \A c \in Conns : conn[c].status \in {"new", "rejected", "closed"} )
    => ~Exists(LobbyName)

\* C9: the stored users never have more than two entries; every connect to
\* a lobby that holds two users is denied, and no connect is admitted under
\* an id that is a key of the users it read.
C9_AtMostTwoDistinctUsers ==
    [][ /\ Exists(LobbyName)' => Cardinality(DOMAIN store'[LobbyName].users) <= 2
        /\ \A c \in Conns :
              ( conn[c].status = "new" /\ conn'[c].status # "new" ) =>
                 /\ ( Exists(LobbyName) /\ Cardinality(DOMAIN store[LobbyName].users) = 2 )
                       => conn'[c].status = "denied"
                 /\ ( Exists(LobbyName) /\ conn'[c].status = "connecting" )
                       => /\ conn'[c].user_id \notin DOMAIN store[LobbyName].users
                          /\ DOMAIN conn'[c].local.users =
                                DOMAIN store[LobbyName].users \cup {conn'[c].user_id} ]_vars

\* a socket has been denied on a lobby that holds two users
C9_Witness ==
    /\ Exists(LobbyName)
    /\ Cardinality(DOMAIN store[LobbyName].users) = 2
    /\ \E c \in Conns : conn[c].status = "denied"
    /\ \A c \in Conns : conn[c].status # "denied" => conn[c].status = "open" /\ conn[c].pc = "idle"

\* the handshake must be refused: no such lobby, no token, a token that
\* does not verify, or a token for another lobby
MustDeny(name, tok) ==
    \/ ~Exists(name)
    \/ tok.kind \in {"missing", "badsig", "expired"}
    \/ tok.lobby_name # name

C12_CorrectInTimeOnly ==
    [][\A c \in Conns, a \in ClientAnswers :
          (receive_question_answered(c, a)
              /\ ~conn[c].question_answered /\ conn'[c].question_answered)
          => LET lobby == store[conn[c].lobby_name]
                 id == conn[c].user_id
                 correct_answer == lobby.correct_answers[lobby.current_question_count + 1]
                 right == /\ a = correct_answer.answer
                          /\ now <= lobby.question_start_time
                                + QUESTION_MAX_DURATION_SECONDS_MAP[correct_answer.difficulty]
                 damage == IF right THEN 0
                           ELSE QUESTION_DIFFICULTY_DAMAGE_MAP[correct_answer.difficulty]
             IN  /\ id \in DOMAIN lobby.users
                      => conn'[c].local.users[id] = lobby.users[id] - damage
                 /\ Len(inbox'[c]) > Len(inbox[c])
                 /\ \A d \in Conns :
                      Len(inbox'[d]) > Len(inbox[d]) =>
                          LET event == inbox'[d][Len(inbox[d]) + 1]
                          IN  /\ event.type = "user.answered"
                              /\ event.user_id = id
                              /\ event.correctly = right
                              /\ event.damage = damage]_vars

\* the correct answer, given after the question's time ran out, has been
\* scored as wrong
C12_Witness ==
    \E c \in Conns :
        /\ frame # <<>> /\ frame[1] = c /\ frame[2].type = "question.answered"
        /\ conn[c].question_answered
        /\ \E i \in DOMAIN inbox[c] :
              /\ inbox[c][i].type = "user.answered"
              /\ \A j \in DOMAIN inbox[c] : j > i => inbox[c][j].type # "user.answered"
              /\ inbox[c][i].user_id = conn[c].user_id
              /\ inbox[c][i].correct_answer = frame[2].answer
              /\ ~inbox[c][i].correctly
              /\ inbox[c][i].damage > 0

\* the hp of the users of `lobby` once `answer`, given by `id`, is scored
HpAfter(lobby, id, answer) ==
    LET correct_answer == lobby.correct_answers[lobby.current_question_count + 1]
        right == /\ answer = correct_answer.answer
                 /\ now <= lobby.question_start_time
                       + QUESTION_MAX_DURATION_SECONDS_MAP[correct_answer.difficulty]
    IN  [u \in DOMAIN lobby.users |->
            IF u = id /\ ~right
            THEN lobby.users[u] - QUESTION_DIFFICULTY_DAMAGE_MAP[correct_answer.difficulty]
            ELSE lobby.users[u]]

\* the status hp gives each user: the higher hp wins, equal hp is a draw
StatusesByHp(hp) ==
    [u \in DOMAIN hp |->
        IF \A v \in DOMAIN hp : hp[u] = hp[v] THEN DRAW
        ELSE IF \A v \in DOMAIN hp : hp[u] >= hp[v] THEN WIN ELSE LOSS]

C14_BothOutIsDraw ==
    [][\A c \in Conns :
          (/\ answered_game_end(c)
           /\ \A u \in DOMAIN conn[c].local.users : conn[c].local.users[u] <= 0)
          => /\ \A u \in DOMAIN Last(games').rows : Last(games').rows[u] = DRAW
             /\ \A d \in Conns : \A i \in DOMAIN inbox'[d] :
                    inbox'[d][i].type = "game.end" =>
                        \A u \in DOMAIN inbox'[d][i].rank_gain :
                            inbox'[d][i].rank_gain[u] = 0
             /\ rank' = rank]_vars

(* ------------------------------- start --------------------------------- *)
\* a lobby whose game has been started is stored or is held by a handler
Started ==
    \/ Exists(LobbyName) /\ store[LobbyName].state # WAITING
    \/ \E c \in Conns : conn[c].local.state # WAITING

\* C17: the game.ready that brings ready_count to 2 makes the lobby
\* IN_PROGRESS with the trivia token and the correct answers of the first
\* batch, broadcasts game.start, question.data of that batch and
\* question.next, in this order and nothing else, and then saves the lobby;
\* and no step broadcasts question.data or question.next unless game.start
\* precedes it or a game was started before.
C17_StartSequence ==
    [][/\ \A c \in Conns :
            LET name == conn[c].lobby_name
            IN  /\ (/\ receive_game_ready(c)
                    /\ Exists(name)
                    /\ store[name].ready_count = 1
                    /\ ~conn[c].ready_sent /\ conn'[c].ready_sent)
                   => /\ conn'[c].pc = "game_ready_save"
                      /\ \E batch \in Batches :
                            /\ conn'[c].local =
                                  [store[name] EXCEPT !.ready_count = 2,
                                                     !.state = IN_PROGRESS,
                                                     !.trivia_token = "FAKE_TOKEN",
                                                     !.correct_answers = batch,
                                                     !.game_start_time = now,
                                                     !.question_start_time = now]
                            /\ \A d \in Conns :
                                  inbox'[d] =
                                    IF d \in group /\ Live(d)
                                    THEN inbox[d] \o
                                         << [type |-> "game.start",
                                             users |-> DOMAIN store[name].users],
                                            [type |-> "question.data",
                                             questions |-> [i \in DOMAIN batch |->
                                                              batch[i].difficulty]],
                                            [type |-> "question.next"] >>
                                    ELSE inbox[d]
                /\ (game_ready_save(c) /\ conn[c].local.ready_count = 2)
                   => /\ Exists(name)'
                      /\ store'[name] = conn[c].local
       /\ \A d \in Conns : \A i \in DOMAIN inbox'[d] :
            (i > Len(inbox[d]) /\ inbox'[d][i].type \in {"question.data", "question.next"})
            => \/ Started
               \/ \E j \in DOMAIN inbox'[d] :
                     j > Len(inbox[d]) /\ j < i /\ inbox'[d][j].type = "game.start"]_vars

\* the second game.ready has been taken: the handler holds the started
\* lobby and both sockets have the three events waiting
C17_Witness ==
    \E c \in Conns :
        /\ conn[c].pc = "game_ready_save"
        /\ conn[c].local.state = IN_PROGRESS
        /\ Cardinality(group) = 2
        /\ \A d \in group :
              /\ Len(inbox[d]) = 3
              /\ inbox[d][1].type = "game.start"
              /\ inbox[d][2].type = "question.data"
              /\ inbox[d][3].type = "question.next"

RankAfter(r, status) ==
    LET delta == IF status = WIN THEN GAME_RANK_GAIN
                 ELSE IF status = LOSS THEN 0 - GAME_RANK_GAIN ELSE 0
    IN  IF r + delta < 0 THEN 0 ELSE r + delta

\* C15: the resolution of a game in a ranked lobby gives each of its two
\* users the rank max(rank + delta, 0), delta being +GAME_RANK_GAIN for
\* WIN, -GAME_RANK_GAIN for LOSS and 0 for DRAW, and leaves every other
\* rank alone; the resolution of a game in a lobby that is not ranked, and
\* every step that is not a resolution, changes no rank; no rank is ever
\* negative.
C15_RanksFollowResolution ==
    [][/\ \A c \in Conns :
            LET name == conn[c].lobby_name
                statuses == conn[c].statuses
            IN  ((answered_game_end(c) \/ disconnect_game_end(c)) /\ Exists(name))
                => rank' = [u \in Users |->
                              IF store[name].ranked = 1 /\ u \in DOMAIN statuses
                              THEN RankAfter(rank[u], statuses[u])
                              ELSE rank[u]]
       /\ rank' # rank
            => \E c \in Conns : answered_game_end(c) \/ disconnect_game_end(c)
       /\ \A u \in Users : rank'[u] >= 0]_vars

\* a ranked game has ended with a loss for the user whose rank was 0 and
\* a win for a user of the starting rank
C15_Witness ==
    /\ Len(games) = 1
    /\ games[1].type = "RANKED"
    /\ DOMAIN games[1].rows = {1, 2}
    /\ games[1].rows[1] = LOSS
    /\ rank[1] = 0
    /\ rank[2] = USER_STARTING_RANK + GAME_RANK_GAIN

(* ---------------------------- game records ----------------------------- *)
\* C16: every Game row in the database has exactly two UserGame rows, one
\* for each player, each naming the other player as opponent.
C16_GameHasTwoUserGames ==
    \A i \in DOMAIN games :
        /\ games[i].type \in {"RANKED", "NORMAL"}
        /\ Cardinality(DOMAIN games[i].rows) = 2
        /\ \A u \in DOMAIN games[i].rows :
              games[i].opponent[u] \in DOMAIN games[i].rows \ {u}

(* ------------------------- frames to clients --------------------------- *)
\* C19: a scored answer puts exactly one user.answered on the channel of
\* every live socket of the lobby; a socket of the answerer turns it into
\* question.result with correctly, correct_answer and damage, and any
\* other socket into opponent.answered with the same correctly and damage
\* and no correct_answer.
C19_AnswerFrames ==
    [][\A c \in Conns :
          /\ user_answered(c)
             => LET event == Head(inbox[c])
                IN  /\ frame'[1] = c
                    /\ IF event.user_id = conn[c].user_id
                       THEN frame'[2] = [type |-> "question.result",
                                         correctly |-> event.correctly,
                                         correct_answer |-> event.correct_answer,
                                         damage |-> event.damage]
                       ELSE frame'[2] = [type |-> "opponent.answered",
                                         correctly |-> event.correctly,
                                         damage |-> event.damage]
          /\ \A a \in ClientAnswers :
                (receive_question_answered(c, a)
                    /\ ~conn[c].question_answered /\ conn'[c].question_answered)
                => \A d \in group :
                      Live(d) =>
                          Cardinality({i \in DOMAIN inbox'[d] :
                                          /\ i > Len(inbox[d])
                                          /\ inbox'[d][i].type = "user.answered"
                                          /\ inbox'[d][i].user_id = conn[c].user_id}) = 1]_vars

\* the opponent of a player who answered wrongly has been sent
\* opponent.answered
C19_Witness ==
    /\ frame # <<>>
    /\ frame[2].type = "opponent.answered"
    /\ ~frame[2].correctly
    /\ frame[2].damage > 0
    /\ conn[frame[1]].status = "open"

\* C20: a socket that handles game.end finds its own user in the event,
\* sends its client one frame with the status of that user, in lower case,
\* and that user's rank gain, and closes; and a resolution puts exactly one
\* game.end on the channel of every live socket of the lobby.
C20_GameEndFrames ==
    [][\A c \in Conns :
          /\ game_end(c)
             => LET event == Head(inbox[c])
                    id == conn[c].user_id
                IN  /\ id \in DOMAIN event.users
                    /\ frame' = <<c, [type |-> "game.end",
                                      status |-> IF event.users[id] = WIN THEN "win"
                                                 ELSE IF event.users[id] = LOSS THEN "loss"
                                                 ELSE "draw",
                                      rank_gain |-> IF event.users[id] = WIN
                                                    THEN GAME_RANK_GAIN
                                                    ELSE IF event.users[id] = LOSS
                                                    THEN 0 - GAME_RANK_GAIN
                                                    ELSE 0]>>
                    /\ conn'[c].status = "closing"
          /\ ((answered_game_end(c) \/ disconnect_game_end(c))
                /\ Len(games') > Len(games)
                /\ DOMAIN Last(games').rows = DOMAIN conn[c].statuses)
             => \A d \in group :
                   Live(d) => /\ Len(inbox'[d]) = Len(inbox[d]) + 1
                              /\ Last(inbox'[d]).type = "game.end"]_vars

\* the loser of a game has been sent its own result
C20_Witness ==
    /\ frame # <<>>
    /\ frame[2].type = "game.end"
    /\ frame[2].status = "loss"
    /\ frame[2].rank_gain = 0 - GAME_RANK_GAIN
    /\ conn[frame[1]].status = "closing"
    /\ Last(games).rows[conn[frame[1]].user_id] = LOSS
\* ------------------------------------------------------------------------
\* C21: a connection gets at most one fifty.response over its lifetime: a
\* fifty.response goes to a socket whose fifty was unused and uses it up,
\* the fifty of an open socket stays used, a fifty.request (here with four
\* different answers) on a socket whose fifty is used sends no frame and
\* changes no consumer, and no fifty.request broadcasts anything.
C21_OneFiftyResponse ==
    [][/\ \A c \in Conns :
             /\ (frame' # <<>> /\ frame'[1] = c /\ frame'[2].type = "fifty.response")
                   => ~conn[c].fifty_used /\ conn'[c].fifty_used
             /\ (conn[c].fifty_used /\ conn'[c].status = "open") => conn'[c].fifty_used
             /\ (conn[c].fifty_used /\ receive_fifty_request(c, <<"A", "B", "C", "D">>))
                   => frame' = <<>> /\ conn' = conn
       /\ inbox' = inbox]_vars

\* a socket has received its fifty.response and its fifty is used
C21_Witness ==
    \E c \in Conns : /\ conn[c].fifty_used
                     /\ frame # <<>>
                     /\ frame[1] = c
                     /\ frame[2].type = "fifty.response"

\* ------------------------------------------------------------------------
\* the list names an answer twice
HasDuplicate(choices) ==
    \E i, j \in 1..Len(choices) : i # j /\ choices[i] = choices[j]

\* the correct answer of the question the lobby is at
CorrectAnswer(lobby) == lobby.correct_answers[lobby.current_question_count + 1].answer

\* the lobby a consumer is attached to is at a question
AtQuestion(c) ==
    /\ Exists(conn[c].lobby_name)
    /\ store[conn[c].lobby_name].current_question_count
          < Len(store[conn[c].lobby_name].correct_answers)

\* C22: a fifty.request gets no response when the question is boolean,
\* when the list has not exactly four answers, when it names an answer twice
\* (the correct one or an incorrect one), or when the correct answer is not
\* in it.
C22_BadRequestDropped ==
    [][\A c \in Conns, choices \in AnswerLists :
          ( /\ AtQuestion(c)
            /\ LET correct_answer == CorrectAnswer(store[conn[c].lobby_name])
               IN  \/ correct_answer \in {"True", "False"}
                   \/ Len(choices) # 4
                   \/ HasDuplicate(choices)
                   \/ \A i \in 1..Len(choices) : choices[i] # correct_answer
            /\ receive_fifty_request(c, choices) )
          => frame' = <<>>]_vars

\* C23: a fifty.response carries two different answers, both from the
\* request's list and neither the correct answer, and goes to the socket
\* that sent the request.
C23_TwoDistinctIncorrect ==
    [][\A c \in Conns, choices \in AnswerLists :
          ( /\ receive_fifty_request(c, choices)
            /\ frame' # <<>> )
          => /\ frame'[1] = c
             /\ frame'[2].type = "fifty.response"
             /\ Len(frame'[2].incorrect_answers) = 2
             /\ frame'[2].incorrect_answers[1] # frame'[2].incorrect_answers[2]
             /\ \A k \in 1..2 :
                   /\ \E i \in 1..Len(choices) : choices[i] = frame'[2].incorrect_answers[k]
                   /\ frame'[2].incorrect_answers[k] # CorrectAnswer(store[conn[c].lobby_name])
             /\ inbox' = inbox]_vars

\* ------------------------------------------------------------------------
\* the game.prepare events waiting in an inbox
Prepares(box) == Cardinality({i \in 1..Len(box) : box[i].type = "game.prepare"})

\* the step is an accepted connect that finds one user in the lobby and adds
\* the second
SecondAdmitted ==
    \E c \in Conns :
        /\ conn[c].status = "new"
        /\ conn'[c].status = "connecting"
        /\ Cardinality(DOMAIN store[conn'[c].lobby_name].users) = 1
        /\ Cardinality(DOMAIN conn'[c].local.users) = 2

\* C24: game.prepare is broadcast exactly by the accepted connect of a
\* second player: that step puts one game.prepare into the inbox of every
\* attached member of the group, the connecting socket included, and no
\* other step, the accepted connect of a first player among them, adds one.
C24_PrepareOnSecondConnect ==
    [][\A d \in Conns :
          /\ (SecondAdmitted /\ d \in group' /\ conn'[d].status \in {"connecting", "open"})
                => inbox'[d] = Append(inbox[d], [type |-> "game.prepare"])
          /\ ~SecondAdmitted => Prepares(inbox'[d]) <= Prepares(inbox[d])]_vars

\* the second player has just been admitted: game.prepare waits for both
\* sockets and the lobby is not saved yet
C24_Witness ==
    \E c, d \in Conns :
        /\ c # d
        /\ conn[c].pc = "connect_save"
        /\ conn[d].status = "open"
        /\ Prepares(inbox[c]) = 1
        /\ Prepares(inbox[d]) = 1
        /\ Cardinality(DOMAIN store[LobbyName].users) = 1

\* ------------------------------------------------------------------------
\* C25: a create-lobby request whose name passed validation and is still
\* unused when the lobby is saved succeeds: the store then holds the lobby
\* WAITING with no users and an expiry of LOBBY_EXPIRE_SECONDS, and the
\* caller gets 201 with a token bound to its id and the lobby name.
C25_CreateSucceeds ==
    [][\A r \in Requests :
          (create_save(r) /\ ~Exists(requests[r].name))
          => /\ Exists(requests[r].name)'
             /\ store'[requests[r].name].state = WAITING
             /\ store'[requests[r].name].users = NoUsers
             /\ requests[r].name \in DOMAIN ttl'
             /\ ttl'[requests[r].name] = now + LOBBY_EXPIRE_SECONDS
             /\ frame' = <<r, [type |-> "http.response", status |-> 201,
                               token |-> [kind |-> "ok", id |-> requests[r].user,
                                          lobby_name |-> requests[r].name]]>>]_vars

\* C26: a create-lobby request that meets a lobby of its name, at
\* validation or when it saves, is answered 400 and leaves the record and
\* its expiry as they are.
C26_CreateExistingRefused ==
    [][\A r \in Requests :
          /\ \A name \in LobbyNames, ranked \in {0, 1}, user \in Users :
                (create(r, name, ranked, user) /\ Exists(name))
                => /\ store' = store /\ ttl' = ttl
                   /\ frame' = <<r, [type |-> "http.response", status |-> 400]>>
          /\ (create_save(r) /\ Exists(requests[r].name))
                => /\ store' = store /\ ttl' = ttl
                   /\ frame' = <<r, [type |-> "http.response", status |-> 400]>>]_vars

\* C27: join answers 404 for a lobby that is not in the store, 400 for a
\* lobby with two users or with the caller among its users, and 200 with a
\* token bound to the caller and the lobby otherwise; the store is left as
\* it is.
C27_JoinResponses ==
    [][\A r \in Requests, name \in LobbyNames, user \in Users :
          join(r, name, user)
          => /\ store' = store /\ ttl' = ttl
             /\ frame' = <<r, IF ~Exists(name)
                              THEN [type |-> "http.response", status |-> 404]
                              ELSE IF \/ Cardinality(DOMAIN store[name].users) = 2
                                      \/ user \in DOMAIN store[name].users
                              THEN [type |-> "http.response", status |-> 400]
                              ELSE [type |-> "http.response", status |-> 200,
                                    token |-> [kind |-> "ok", id |-> user,
                                               lobby_name |-> name]]>>]_vars

\* no socket has attached to the lobby or is being attached to it
NeverAttached(name) ==
    /\ store[name].users = NoUsers
    /\ \A c \in Conns : conn[c].lobby_name # name

\* C28: a lobby that no socket has attached to is in the store only with an
\* expiry that lies at most LOBBY_EXPIRE_SECONDS ahead, so that it is
\* removed once that time has passed.
C28_UnusedLobbyExpires ==
    \A name \in DOMAIN store :
        NeverAttached(name) => /\ name \in DOMAIN ttl
                               /\ ttl[name] <= now + LOBBY_EXPIRE_SECONDS

\* ------------------------------------------------------------------------
\* C29: a lobby write that fails while game.ready or question.answered is
\* handled stores nothing and leaves flag and store consistent: the sender
\* still has an attached connection on which the flag of the message is not
\* set, so that the message whose effect was not stored can be applied
\* again.
C29_FailedWriteKeepsMessageAppliable ==
    [][\A c \in Conns :
          save_fails(c)
          => /\ store' = store
             /\ \E d \in Conns :
                   /\ conn'[d].status = "open"
                   /\ conn'[d].user_id = conn[c].user_id
                   /\ conn'[d].lobby_name = conn[c].lobby_name
                   /\ conn[c].pc = "game_ready_save" => ~conn'[d].ready_sent
                   /\ conn[c].pc \in {"answered_first", "answered_next"}
                         => ~conn'[d].question_answered]_vars

\* a game of the lobby's two players was resolved as a draw for both
DrawResolved ==
    \E g \in 1..Len(games) : \A u \in DOMAIN games[g].rows : games[g].rows[u] = DRAW

\* C30: once the question provider has failed and every handler and event
\* has run, the game is over for both players: it was resolved as a draw
\* or no socket is attached any more.
C30_ProviderFailureEndsGame ==
    ("provider" \in faults.seen /\ Quiet)
    => \/ DrawResolved
       \/ \A c \in Conns : conn[c].status # "open"

\* ------------------------------------------------------------------------
\* C31: the statuses an answer handler determines from the two players' hp
\* are DRAW for both when the hps are equal, and otherwise WIN for the
\* player with the higher hp and LOSS for the other.
C31_StatusByHp ==
    [][\A c \in Conns :
          (conn[c].pc = "idle" /\ conn'[c].pc = "answered_game_end")
          => LET hp == conn'[c].local.users
                 status == conn'[c].statuses
             IN  /\ DOMAIN status = DOMAIN hp
                 /\ Cardinality(DOMAIN hp) = 2
                 /\ \A u, v \in DOMAIN hp :
                       /\ (u # v /\ hp[u] = hp[v]) => status[u] = DRAW /\ status[v] = DRAW
                       /\ hp[u] > hp[v] => status[u] = WIN /\ status[v] = LOSS]_vars

\* statuses were determined for a first player with more hp than the second
C31_Witness ==
    \E c \in Conns :
        /\ conn[c].pc = "answered_game_end"
        /\ conn[c].local.users[1] > conn[c].local.users[2]
        /\ conn[c].statuses[1] = WIN
        /\ conn[c].statuses[2] = LOSS

\* ------------------------------------------------------------------------
\* C32: the handler of the first question.answered of a question changes,
\* in the lobby it read, only the sender's hp (by nothing or by the damage
\* of the question) and current_answer_count, which becomes 1; it
\* broadcasts one user.answered of the sender and nothing else, and what it
\* then saves is that lobby, with no further broadcast.
C32_FirstAnswerEffect ==
    [][\A c \in Conns :
          /\ (conn[c].pc = "idle" /\ conn'[c].pc = "answered_first")
             => LET id == conn[c].user_id
                    old == store[conn[c].lobby_name]
                    new == conn'[c].local
                    question == old.correct_answers[old.current_question_count + 1]
                IN  /\ store' = store
                    /\ old.current_answer_count = 0
                    /\ IF id \in DOMAIN old.users
                       THEN /\ new = [old EXCEPT !.users[id] = new.users[id],
                                                 !.current_answer_count = 1]
                            /\ old.users[id] - new.users[id]
                                  \in {0, QUESTION_DIFFICULTY_DAMAGE_MAP[question.difficulty]}
                       ELSE new = [old EXCEPT !.current_answer_count = 1]
                    /\ \A d \in Conns :
                          IF d \in group /\ conn[d].status \in {"connecting", "open"}
                          THEN /\ Len(inbox'[d]) = Len(inbox[d]) + 1
                               /\ SubSeq(inbox'[d], 1, Len(inbox[d])) = inbox[d]
                               /\ inbox'[d][Len(inbox[d]) + 1].type = "user.answered"
                               /\ inbox'[d][Len(inbox[d]) + 1].user_id = id
                          ELSE inbox'[d] = inbox[d]
          /\ answered_first(c)
             => /\ store' = Save(conn[c].lobby_name, conn[c].local)
                /\ inbox' = inbox]_vars

\* a wrong first answer has been scored and waits to be saved
C32_Witness ==
    \E c \in Conns :
        /\ conn[c].pc = "answered_first"
        /\ Exists(conn[c].lobby_name)
        /\ conn[c].user_id \in DOMAIN store[conn[c].lobby_name].users
        /\ conn[c].local.users[conn[c].user_id]
              < store[conn[c].lobby_name].users[conn[c].user_id]
        /\ conn[c].local.current_answer_count = 1
        /\ \E d \in Conns : d # c /\ inbox[d] # <<>> /\ Last(inbox[d]).type = "user.answered"

\* ------------------------------------------------------------------------
\* C33: the handler of a second answer that does not end the game leaves
\* current_answer_count 0 in its lobby and moves current_question_count on
\* by 1 or, from the last question of the batch, back to 0 with a new batch
\* as correct_answers and the same trivia_token; and every stored lobby
\* that is IN_PROGRESS has current_answer_count 0 or 1 and a
\* current_question_count below TRIVIA_API_QUESTION_AMOUNT that is an index
\* of correct_answers.
C33_CountersInRange ==
    [][/\ \A c \in Conns :
             (conn[c].pc = "idle" /\ conn'[c].pc = "answered_next")
             => LET old == store[conn[c].lobby_name]
                    new == conn'[c].local
                IN  /\ old.current_answer_count = 1
                    /\ new.current_answer_count = 0
                    /\ new.trivia_token = old.trivia_token
                    /\ IF old.current_question_count = TRIVIA_API_QUESTION_AMOUNT - 1
                       THEN /\ new.current_question_count = 0
                            /\ new.correct_answers \in Batches
                       ELSE /\ new.current_question_count = old.current_question_count + 1
                            /\ new.correct_answers = old.correct_answers
       /\ \A name \in DOMAIN store' :
             store'[name].state = IN_PROGRESS
             => /\ store'[name].current_answer_count \in {0, 1}
                /\ store'[name].current_question_count \in 0..(TRIVIA_API_QUESTION_AMOUNT - 1)
                /\ store'[name].current_question_count < Len(store'[name].correct_answers)]_vars

\* a second answer to the last question of a batch has been scored: the
\* handler's lobby is at the first question of a new batch, the stored one
\* still at the last of the old
C33_Witness ==
    \E c \in Conns :
        /\ conn[c].pc = "answered_next"
        /\ Exists(conn[c].lobby_name)
        /\ store[conn[c].lobby_name].current_question_count = TRIVIA_API_QUESTION_AMOUNT - 1
        /\ conn[c].local.current_question_count = 0
        /\ conn[c].local.current_answer_count = 0

\* ------------------------------------------------------------------------
\* the two sequences differ by the events appended to the first
Appended(before, after) ==
    IF Len(after) >= Len(before) /\ SubSeq(after, 1, Len(before)) = before
    THEN SubSeq(after, Len(before) + 1, Len(after))
    ELSE <<"not appended">>

Subscribed(d) == d \in group /\ conn[d].status \in {"connecting", "open"}

C35_ResolvedOnce ==
    Len(games) <= 1

\* C36: a stored lobby that is FINISHED stays FINISHED for as long as the
\* record exists.
C36_FinishedStays ==
    [][\A name \in DOMAIN store :
          (store[name].state = FINISHED /\ name \in DOMAIN store')
          => store'[name].state = FINISHED]_vars

\* C37: at most two accepted sockets are subscribed to the lobby's group,
\* and the user of every accepted socket is a key of the stored lobby's
\* users.
C37_AcceptedAreUsers ==
    /\ Cardinality({c \in group : conn[c].status = "open"}) <= 2
    /\ \A c \in Conns :
          (conn[c].status = "open" /\ conn[c].pc = "idle")
          => /\ Exists(conn[c].lobby_name)
             /\ conn[c].user_id \in DOMAIN store[conn[c].lobby_name].users

\* C38: when each of the two players of a lobby has an attached consumer
\* whose game.ready was counted and every handler has finished, both
\* readies are stored and the game has started.
C38_BothReadiesCounted ==
    \A name \in DOMAIN store :
        ( /\ Cardinality(DOMAIN store[name].users) = 2
          /\ Quiet
          /\ \A u \in DOMAIN store[name].users :
                \E c \in Conns : /\ conn[c].status = "open"
                                 /\ conn[c].lobby_name = name
                                 /\ conn[c].user_id = u
                                 /\ conn[c].ready_sent )
        => /\ store[name].ready_count = 2
           /\ store[name].state # WAITING

\* the question.next events waiting in an inbox
Nexts(box) == Cardinality({i \in 1..Len(box) : box[i].type = "question.next"})

\* C39: when a step broadcasts question.next, the stored lobby of every
\* socket that is sent it holds the question: it is IN_PROGRESS at
\* current_answer_count 0 with the question in correct_answers and the
\* question_start_time of that step.
C39_NextAfterStore ==
    [][\A d \in Conns :
          Nexts(inbox'[d]) > Nexts(inbox[d])
          => /\ conn[d].lobby_name \in DOMAIN store'
             /\ LET lobby == store'[conn[d].lobby_name]
                IN  /\ lobby.state = IN_PROGRESS
                    /\ lobby.current_answer_count = 0
                    /\ lobby.current_question_count < Len(lobby.correct_answers)
                    /\ lobby.question_start_time = now]_vars

\* C40: a question.answered that a consumer receives while its lobby is
\* not IN_PROGRESS is ignored: the consumer stays as it is with its flags
\* unset, nothing is broadcast and the lobby record is unchanged.
C40_AnswerOutsideGameIgnored ==
    [][\A c \in Conns, answer \in ClientAnswers :
          ( /\ Exists(conn[c].lobby_name)
            /\ store[conn[c].lobby_name].state # IN_PROGRESS
            /\ receive_question_answered(c, answer) )
          => /\ conn' = conn
             /\ ~conn'[c].question_answered
             /\ inbox' = inbox
             /\ store' = store]_vars

====
